---- MODULE Spec2Model ----
(***************************************************************************)
(* State-machine model of weather-analysis-script.py: one top-to-bottom    *)
(* run of the script.  Every external call (package import, pip, the       *)
(* `coder` credential helper, the BigQuery client, the plot display) is a  *)
(* nondeterministic choice over the outcomes the call can have.            *)
(***************************************************************************)
EXTENDS Integers, Sequences, FiniteSets, TLC

VARIABLES
    pc,             \* position of the run in the script
    out,            \* lines the script printed to stdout, in order
    trace,          \* statements executed so far, in order
    error,          \* the unhandled exception that ended the run, or "none"
    helper_calls,   \* number of invocations of the credential helper
    access_token,   \* module-level access_token (line 46)
    client,         \* the BigQuery client: whether built, and the token it holds
    query_submits,  \* number of client.query(...) calls
    query_token,    \* the token the query was submitted with
    df,             \* the in-memory table (line 61)
    axes,           \* the 2x2 grid: per histogram column, the series drawn
    shown,          \* per chart, whether plt.show() displayed it and with what data
    top_stations,   \* value_counts().head(10) of station_number (line 118)
    nunique,        \* the printed number of unique stations (line 130)
    i,              \* the enumerate counter of the ranking loop (line 132)
    import_result,  \* how `import pandas` of line 14 ended
    helper_result,  \* how the credential helper's invocation ended
    fetched         \* the table as to_dataframe() returned it

vars == <<pc, out, trace, error, helper_calls, access_token, client,
          query_submits, query_token, df, axes, shown, top_stations, nunique, i,
          import_result, helper_result, fetched>>

-----------------------------------------------------------------------------
(* Bounds of the model *)

MaxTokLen == 2
MaxRows == 2
MaxStations == 11
MaxNulls == 1

(* Constants of the program *)

TopN == 10
HeadN == 5
QueryLimit == 500

-----------------------------------------------------------------------------
(* Strings: the helper's stdout is a sequence of characters *)

Whitespace == {" ", "\n"}

Chars == Whitespace \cup {"a"}

Stdouts == UNION {[1..n -> Chars] : n \in 0..MaxTokLen}

RECURSIVE lstrip(_)
lstrip(s) ==
    IF s # <<>> /\ Head(s) \in Whitespace THEN lstrip(Tail(s)) ELSE s

RECURSIVE rstrip(_)
rstrip(s) ==
    IF s # <<>> /\ s[Len(s)] \in Whitespace
    THEN rstrip(SubSeq(s, 1, Len(s) - 1))
    ELSE s

\* a mutant of strip: only leading whitespace is removed
strip_leading_only(s) == lstrip(s)

AllWhitespace(s) == \A k \in 1..Len(s) : s[k] \in Whitespace

\* str.strip() with no argument (line 40)
strip(s) == rstrip(lstrip(s))

\* A Python value that is either None or a str
None == [isNone |-> TRUE, s |-> <<>>]

Str(s) == [isNone |-> FALSE, s |-> s]

\* a mutant of the guard: only None is rejected, the empty string passes
Truthy_not_none(v) == ~v.isNone

\* truth value of `access_token` in `if access_token:` (line 47)
Truthy(v) == ~v.isNone /\ Len(v.s) > 0

-----------------------------------------------------------------------------
(* The table *)

HistColumns ==
    {"mean_temp", "total_precipitation", "mean_wind_speed", "mean_visibility"}

StationColumn == "station_number"

ChartColumns == HistColumns \cup {StationColumn}

\* SELECT * also returns columns no chart is made of
AllColumns == ChartColumns \cup {"year"}

\* a missing value (NaN / None in the data frame)
NULL == 0

notna(v) == v # NULL

Min(a, b) == IF a <= b THEN a ELSE b

\* The rows the remote table is made of: every cell either a value or NULL
RowTemplate(k) ==
    CASE k = 1 ->
            [station_number |-> 1, mean_temp |-> 50, total_precipitation |-> NULL,
             mean_wind_speed |-> 5, mean_visibility |-> NULL, year |-> 1950]
      [] k = 2 ->
            [station_number |-> 2, mean_temp |-> NULL, total_precipitation |-> 1,
             mean_wind_speed |-> NULL, mean_visibility |-> 10, year |-> 1951]
      [] OTHER ->
            [station_number |-> NULL, mean_temp |-> 50, total_precipitation |-> NULL,
             mean_wind_speed |-> NULL, mean_visibility |-> NULL, year |-> NULL]

RowTemplates == {RowTemplate(k) : k \in 1..3}

\* the row of station s in the station-rich tables
StationRow(s) == [RowTemplate(IF s = NULL THEN 3 ELSE 1 + (s % 2))
                     EXCEPT !["station_number"] = s]

Rep(x, n) == [j \in 1..n |-> x]

\* Station k has k records, except that station tie + 1 (tie > 0) has as many
\* as station tie; stations with few records come first in the table.
RecordsOf(k, tie) == IF tie > 0 /\ k = tie + 1 THEN tie ELSE k

RECURSIVE StationBlocks(_, _)
StationBlocks(k, tie) ==
    IF k = 0 THEN <<>>
    ELSE StationBlocks(k - 1, tie) \o Rep(StationRow(k), RecordsOf(k, tie))

Project(rows, cols) ==
    [j \in 1..Len(rows) |-> [c \in cols |-> rows[j][c]]]

Table(cols, rows) == [ready |-> TRUE, cols |-> cols, rows |-> Project(rows, cols)]

\* tables with any set of chart columns and few rows
SmallTables ==
    {Table(cs \cup {"year"}, rows) :
        cs \in SUBSET ChartColumns,
        rows \in UNION {[1..n -> RowTemplates] : n \in 0..MaxRows}}

\* tables with all columns and up to MaxStations stations
StationTables ==
    {Table(AllColumns, Rep(StationRow(NULL), n) \o StationBlocks(k, tie)) :
        k \in 0..MaxStations, tie \in 0..MaxStations - 1, n \in 0..MaxNulls}

\* what `SELECT * FROM gsod LIMIT 500` can return
Tables == {t \in SmallTables \cup StationTables : Len(t.rows) <= QueryLimit}

NoTable == [ready |-> FALSE, cols |-> {}, rows |-> <<>>]

-----------------------------------------------------------------------------
(* pandas operations on the table *)

\* a mutant of the presence check: a histogram column counts as present only
\* when the column checked before it is present too
ColumnPresent_chained(c, t) ==
    /\ c \in t.cols
    /\ c = "total_precipitation" => "mean_temp" \in t.cols

\* `'<name>' in df.columns` (lines 82, 90, 98, 106, 117)
ColumnPresent(c, t) == c \in t.cols

\* df[df[c].notna()][c]: the values of column c that are not missing, in row
\* order (lines 83, 91, 99, 107)
NotNaSeries(t, c) ==
    LET keep == SelectSeq(t.rows, LAMBDA r : notna(r[c]))
    IN  [j \in 1..Len(keep) |-> keep[j][c]]

\* the distinct non-missing station numbers (value_counts and nunique both
\* drop missing values)
StationValues(t) ==
    {t.rows[j][StationColumn] : j \in 1..Len(t.rows)} \ {NULL}

CountOf(t, s) == Cardinality({j \in 1..Len(t.rows) : t.rows[j][StationColumn] = s})

\* Series.value_counts(): one entry per distinct value with its number of
\* rows, sorted by count, largest first.  The order among equal counts is
\* not fixed by the sort, so every order is an outcome.
RECURSIVE SortedCounts(_, _)
SortedCounts(t, S) ==
    IF S = {} THEN {<<>>}
    ELSE LET best == {s \in S : \A u \in S : CountOf(t, u) <= CountOf(t, s)}
         IN  UNION {{<<[station |-> s, count |-> CountOf(t, s)]>> \o rest :
                        rest \in SortedCounts(t, S \ {s})} : s \in best}

value_counts(t) == SortedCounts(t, StationValues(t))

\* a mutant of head: one entry too many
head_off_by_one(s, n) == SubSeq(s, 1, Min(n + 1, Len(s)))

\* Series.head(n) / DataFrame.head(n)
head(s, n) == SubSeq(s, 1, Min(n, Len(s)))

\* df['station_number'].value_counts().head(10) (line 118)
TopStations(t) == {head(vc, TopN) : vc \in value_counts(t)}

-----------------------------------------------------------------------------
(* The run *)

Line(msg, a, b) == [msg |-> msg, a |-> a, b |-> b]

Printed(msg) == \E j \in 1..Len(out) : out[j].msg = msg

Ran(step) == \E j \in 1..Len(trace) : trace[j] = step

NoAxes == [c \in HistColumns |-> [drawn |-> FALSE, data |-> <<>>]]

NoCharts == [c \in ChartColumns |-> [displayed |-> FALSE, data |-> <<>>]]

NoClient == [built |-> FALSE, token |-> <<>>]

Init ==
    /\ pc = "start"
    /\ out = <<>>
    /\ trace = <<>>
    /\ error = "none"
    /\ helper_calls = 0
    /\ access_token = None
    /\ client = NoClient
    /\ query_submits = 0
    /\ query_token = <<>>
    /\ df = NoTable
    /\ axes = NoAxes
    /\ shown = NoCharts
    /\ top_stations = <<>>
    /\ nunique = 0
    /\ i = 0
    /\ import_result = "pending"
    /\ helper_result = "pending"
    /\ fetched = NoTable

\* a mutant of Raise: the exception is logged and the run carries on to the
\* completion message
Raise_swallowed(e) ==
    /\ pc' = "complete"
    /\ error' = e

\* an exception nothing catches ends the run
Raise(e) ==
    /\ pc' = "aborted"
    /\ error' = e

\* lines 13-15: try: import pandas / except ImportError
ImportPandas ==
    /\ pc = "start"
    /\ trace' = Append(trace, "import_pandas")
    /\ \/ pc' = "imports" /\ import_result' = "ok"
       \/ pc' = "pip_install" /\ import_result' = "ImportError"
    /\ UNCHANGED <<helper_result, fetched>>
    /\ UNCHANGED <<out, error, helper_calls, access_token, client, query_submits,
                   query_token, df, axes, shown, top_stations, nunique, i>>

\* line 16: subprocess.check_call([... 'pip', 'install', ...])
PipInstall ==
    /\ pc = "pip_install"
    /\ UNCHANGED <<import_result, helper_result, fetched>>
    /\ trace' = Append(trace, "pip_install")
    /\ \/ pc' = "imports" /\ UNCHANGED error
       \/ Raise("CalledProcessError")
    /\ UNCHANGED <<out, helper_calls, access_token, client, query_submits,
                   query_token, df, axes, shown, top_stations, nunique, i>>

\* lines 17-30: the remaining imports and the plotting set-up
Imports ==
    /\ pc = "imports"
    /\ UNCHANGED <<import_result, helper_result, fetched>>
    /\ trace' = Append(trace, "imports")
    /\ \/ pc' = "get_token" /\ UNCHANGED error
       \/ Raise("ImportError")
    /\ UNCHANGED <<out, helper_calls, access_token, client, query_submits,
                   query_token, df, axes, shown, top_stations, nunique, i>>

\* a mutant of get_access_token: a non-zero exit of the helper is retried
get_access_token_retry ==
    /\ pc = "get_token"
    /\ helper_calls < 3
    /\ trace' = Append(trace, "get_access_token")
    /\ helper_calls' = helper_calls + 1
    /\ \/ \E stdout \in Stdouts :
            /\ access_token' = Str(strip(stdout))
            /\ helper_result' = IF AllWhitespace(stdout) THEN "blank" ELSE "token"
            /\ pc' = "guard"
            /\ UNCHANGED <<out, error>>
       \/ /\ out' = Append(out, Line("Error: CalledProcessError", 0, 0))
          /\ access_token' = None
          /\ helper_result' = "exit_nonzero"
          /\ pc' = "get_token"
          /\ UNCHANGED error
       \/ /\ Raise("FileNotFoundError")
          /\ helper_result' = "not_launchable"
          /\ UNCHANGED <<out, access_token>>
    /\ UNCHANGED <<client, query_submits, query_token, df, axes, shown,
                   top_stations, nunique, i, import_result, fetched>>

\* lines 32-46: access_token = get_access_token().  subprocess.run with
\* check=True returns the helper's stdout, raises CalledProcessError on a
\* non-zero exit (caught: line 41) and raises OSError when the helper cannot
\* be launched (not caught).
get_access_token ==
    /\ pc = "get_token"
    /\ UNCHANGED <<import_result, fetched>>
    /\ trace' = Append(trace, "get_access_token")
    /\ helper_calls' = helper_calls + 1
    /\ \/ \E stdout \in Stdouts :
            /\ access_token' = Str(strip(stdout))
            /\ helper_result' = IF AllWhitespace(stdout) THEN "blank" ELSE "token"
            /\ pc' = "guard"
            /\ UNCHANGED <<out, error>>
       \/ /\ out' = Append(out, Line("Error: CalledProcessError", 0, 0))
          /\ access_token' = None
          /\ helper_result' = "exit_nonzero"
          /\ pc' = "guard"
          /\ UNCHANGED error
       \/ /\ Raise("FileNotFoundError")
          /\ helper_result' = "not_launchable"
          /\ UNCHANGED <<out, access_token>>
    /\ UNCHANGED <<client, query_submits, query_token, df, axes, shown,
                   top_stations, nunique, i>>

\* a mutant of TokenGuard: the failure branch falls through to the end of
\* the success branch
TokenGuard_fallthrough ==
    /\ pc = "guard"
    /\ UNCHANGED <<import_result, helper_result, fetched>>
    /\ IF Truthy(access_token)
       THEN /\ out' = Append(out, Line("Access token obtained", 0, 0))
            /\ trace' = Append(trace, "token_obtained")
            /\ pc' = "client"
       ELSE /\ out' = Append(out, Line("Failed to get access token", 0, 0))
            /\ trace' = Append(trace, "token_failed")
            /\ pc' = "complete"
    /\ UNCHANGED <<error, helper_calls, access_token, client, query_submits,
                   query_token, df, axes, shown, top_stations, nunique, i>>

\* lines 47-48 and 137-138: if access_token: ... else: ...
TokenGuard ==
    /\ pc = "guard"
    /\ UNCHANGED <<import_result, helper_result, fetched>>
    /\ IF Truthy(access_token)
       THEN /\ out' = Append(out, Line("Access token obtained", 0, 0))
            /\ trace' = Append(trace, "token_obtained")
            /\ pc' = "client"
       ELSE /\ out' = Append(out, Line("Failed to get access token", 0, 0))
            /\ trace' = Append(trace, "token_failed")
            /\ pc' = "failed"
    /\ UNCHANGED <<error, helper_calls, access_token, client, query_submits,
                   query_token, df, axes, shown, top_stations, nunique, i>>

\* lines 49-51: creds = Credentials(token=access_token); client = Client(...)
BuildClient ==
    /\ pc = "client"
    /\ UNCHANGED <<import_result, helper_result, fetched>>
    /\ trace' = Append(trace, "build_client")
    /\ \/ /\ client' = [built |-> TRUE, token |-> access_token.s]
          /\ out' = Append(out, Line("BigQuery client ready", 0, 0))
          /\ pc' = "query"
          /\ UNCHANGED error
       \/ /\ Raise("ClientError")
          /\ UNCHANGED <<client, out>>
    /\ UNCHANGED <<helper_calls, access_token, query_submits, query_token, df,
                   axes, shown, top_stations, nunique, i>>

\* lines 60-61: print(...); client.query(query)
SubmitQuery ==
    /\ pc = "query"
    /\ UNCHANGED <<import_result, helper_result, fetched>>
    /\ trace' = Append(trace, "submit_query")
    /\ out' = Append(out, Line("Executing BigQuery query", 0, 0))
    /\ query_submits' = query_submits + 1
    /\ query_token' = client.token
    /\ \/ pc' = "to_dataframe" /\ UNCHANGED error
       \/ Raise("QueryError")
    /\ UNCHANGED <<helper_calls, access_token, client, df, axes, shown,
                   top_stations, nunique, i>>

\* line 61: df = (...).to_dataframe()
ToDataframe ==
    /\ pc = "to_dataframe"
    /\ UNCHANGED <<import_result, helper_result>>
    /\ trace' = Append(trace, "to_dataframe")
    /\ \/ \E t \in Tables :
            /\ df' = t
            /\ fetched' = t
            /\ pc' = "retrieved"
            /\ UNCHANGED error
       \/ /\ Raise("QueryError")
          /\ UNCHANGED <<df, fetched>>
    /\ UNCHANGED <<out, helper_calls, access_token, client, query_submits,
                   query_token, axes, shown, top_stations, nunique, i>>

\* lines 62-63: the row count and the column list
PrintRetrieved ==
    /\ pc = "retrieved"
    /\ UNCHANGED <<import_result, helper_result, fetched>>
    /\ trace' = Append(trace, "print_retrieved")
    /\ out' = out \o <<Line("Retrieved rows", Len(df.rows), 0),
                       Line("Columns", Cardinality(df.cols), 0)>>
    /\ pc' = "summary"
    /\ UNCHANGED <<error, helper_calls, access_token, client, query_submits,
                   query_token, df, axes, shown, top_stations, nunique, i>>

\* lines 66-75: df.head(), df.info(), df.describe()
Summarize ==
    /\ pc = "summary"
    /\ UNCHANGED <<import_result, helper_result, fetched>>
    /\ trace' = Append(trace, "summarize")
    /\ out' = out \o <<Line("First 5 rows", Len(head(df.rows, HeadN)), 0),
                       Line("Dataset info", Len(df.rows), Cardinality(df.cols)),
                       Line("Statistical summary", Len(df.rows), 0)>>
    /\ pc' = "subplots"
    /\ UNCHANGED <<error, helper_calls, access_token, client, query_submits,
                   query_token, df, axes, shown, top_stations, nunique, i>>

\* lines 78-79: fig, axes = plt.subplots(2, 2, ...)
Subplots ==
    /\ pc = "subplots"
    /\ UNCHANGED <<import_result, helper_result, fetched>>
    /\ trace' = Append(trace, "subplots")
    /\ axes' = NoAxes
    /\ pc' = "mean_temp"
    /\ UNCHANGED <<out, error, helper_calls, access_token, client, query_submits,
                   query_token, df, shown, top_stations, nunique, i>>

\* a mutant of Histogram: a column with no value to plot is skipped
Histogram_skip_empty(c, next) ==
    /\ pc = c
    /\ UNCHANGED <<import_result, helper_result, fetched>>
    /\ IF ColumnPresent(c, df) /\ NotNaSeries(df, c) # <<>>
       THEN /\ axes' = [axes EXCEPT ![c] = [drawn |-> TRUE, data |-> NotNaSeries(df, c)]]
            /\ trace' = Append(trace, c)
       ELSE UNCHANGED <<axes, trace>>
    /\ pc' = next
    /\ UNCHANGED <<out, error, helper_calls, access_token, client, query_submits,
                   query_token, df, shown, top_stations, nunique, i>>

\* a mutant of Histogram: the missing values are dropped from the table itself
Histogram_dropna_inplace(c, next) ==
    /\ pc = c
    /\ UNCHANGED <<import_result, helper_result, fetched>>
    /\ IF ColumnPresent(c, df)
       THEN /\ df' = [df EXCEPT !.rows = SelectSeq(df.rows, LAMBDA r : notna(r[c]))]
            /\ axes' = [axes EXCEPT ![c] = [drawn |-> TRUE, data |-> NotNaSeries(df, c)]]
            /\ trace' = Append(trace, c)
       ELSE UNCHANGED <<df, axes, trace>>
    /\ pc' = next
    /\ UNCHANGED <<out, error, helper_calls, access_token, client, query_submits,
                   query_token, shown, top_stations, nunique, i>>

\* one `if '<c>' in df.columns:` block of lines 82-111
Histogram(c, next) ==
    /\ pc = c
    /\ UNCHANGED <<import_result, helper_result, fetched>>
    /\ IF ColumnPresent(c, df)
       THEN /\ axes' = [axes EXCEPT ![c] = [drawn |-> TRUE, data |-> NotNaSeries(df, c)]]
            /\ trace' = Append(trace, c)
       ELSE UNCHANGED <<axes, trace>>
    /\ pc' = next
    /\ UNCHANGED <<out, error, helper_calls, access_token, client, query_submits,
                   query_token, df, shown, top_stations, nunique, i>>

\* lines 82-87
HistTemperature == Histogram("mean_temp", "total_precipitation")

\* lines 90-95
HistPrecipitation == Histogram("total_precipitation", "mean_wind_speed")

\* lines 98-103
HistWindSpeed == Histogram("mean_wind_speed", "mean_visibility")

\* lines 106-111
HistVisibility == Histogram("mean_visibility", "show_grid")

\* lines 113-114: plt.tight_layout(); plt.show() displays what was drawn on
\* the grid
ShowGrid ==
    /\ pc = "show_grid"
    /\ UNCHANGED <<import_result, helper_result, fetched>>
    /\ trace' = Append(trace, "show_grid")
    /\ \/ /\ shown' = [c \in ChartColumns |->
                         IF c \in HistColumns /\ axes[c].drawn
                         THEN [displayed |-> TRUE, data |-> axes[c].data]
                         ELSE shown[c]]
          /\ pc' = "station_number"
          /\ UNCHANGED error
       \/ /\ Raise("DisplayError")
          /\ UNCHANGED shown
    /\ UNCHANGED <<out, helper_calls, access_token, client, query_submits,
                   query_token, df, axes, top_stations, nunique, i>>

\* lines 117-118: if 'station_number' in df.columns: top_stations = ...
StationCounts ==
    /\ pc = "station_number"
    /\ UNCHANGED <<import_result, helper_result, fetched>>
    /\ IF ColumnPresent(StationColumn, df)
       THEN /\ top_stations' \in TopStations(df)
            /\ trace' = Append(trace, "station_number")
            /\ pc' = "bar_chart"
       ELSE /\ pc' = "complete"
            /\ UNCHANGED <<top_stations, trace>>
    /\ UNCHANGED <<out, error, helper_calls, access_token, client, query_submits,
                   query_token, df, axes, shown, nunique, i>>

\* lines 120-128: the bar chart of top_stations and its plt.show()
BarChart ==
    /\ pc = "bar_chart"
    /\ UNCHANGED <<import_result, helper_result, fetched>>
    /\ trace' = Append(trace, "bar_chart")
    /\ \/ /\ shown' = [shown EXCEPT ![StationColumn] =
                         [displayed |-> TRUE, data |-> top_stations]]
          /\ pc' = "print_unique"
          /\ UNCHANGED error
       \/ /\ Raise("DisplayError")
          /\ UNCHANGED shown
    /\ UNCHANGED <<out, helper_calls, access_token, client, query_submits,
                   query_token, df, axes, top_stations, nunique, i>>

\* lines 130-132: the number of unique stations, the heading, and the start
\* of enumerate(top_stations.items(), 1)
PrintUnique ==
    /\ pc = "print_unique"
    /\ UNCHANGED <<import_result, helper_result, fetched>>
    /\ trace' = Append(trace, "print_ranking")
    /\ nunique' = Cardinality(StationValues(df))
    /\ out' = out \o <<Line("Total unique stations", Cardinality(StationValues(df)), 0),
                       Line("Top 10 stations", 0, 0)>>
    /\ i' = 1
    /\ pc' = "rank_loop"
    /\ UNCHANGED <<error, helper_calls, access_token, client, query_submits,
                   query_token, df, axes, shown, top_stations>>

\* lines 132-133: one iteration of the for loop, or its end
RankLoop ==
    /\ pc = "rank_loop"
    /\ UNCHANGED <<import_result, helper_result, fetched>>
    /\ \/ /\ i <= Len(top_stations)
          /\ out' = Append(out, [msg |-> "Station", a |-> top_stations[i].station,
                                 b |-> top_stations[i].count, rank |-> i])
          /\ i' = i + 1
          /\ UNCHANGED pc
       \/ /\ i > Len(top_stations)
          /\ pc' = "complete"
          /\ UNCHANGED <<out, i>>
    /\ UNCHANGED <<trace, error, helper_calls, access_token, client, query_submits,
                   query_token, df, axes, shown, top_stations, nunique>>

\* line 135
Complete ==
    /\ pc = "complete"
    /\ UNCHANGED <<import_result, helper_result, fetched>>
    /\ trace' = Append(trace, "complete")
    /\ out' = Append(out, Line("Weather data analysis complete!", 0, 0))
    /\ pc' = "done"
    /\ UNCHANGED <<error, helper_calls, access_token, client, query_submits,
                   query_token, df, axes, shown, top_stations, nunique, i>>

Next ==
    \/ ImportPandas
    \/ PipInstall
    \/ Imports
    \/ get_access_token
    \/ TokenGuard
    \/ BuildClient
    \/ SubmitQuery
    \/ ToDataframe
    \/ PrintRetrieved
    \/ Summarize
    \/ Subplots
    \/ HistTemperature
    \/ HistPrecipitation
    \/ HistWindSpeed
    \/ HistVisibility
    \/ ShowGrid
    \/ StationCounts
    \/ BarChart
    \/ PrintUnique
    \/ RankLoop
    \/ Complete

Spec == Init /\ [][Next]_vars

\* every statement of the script runs to its end: each external call returns
\* or raises
FairSpec == Spec /\ WF_vars(Next)

Terminated == pc \in {"done", "failed", "aborted"}

-----------------------------------------------------------------------------
(* Shorthands of the properties *)

\* a non-empty token was obtained
TokenObtained == ~access_token.isNone /\ access_token.s # <<>>

\* the invocation of the credential helper failed
HelperFailed == helper_result \in {"exit_nonzero", "not_launchable"}

\* the charts displayed so far
Rendered == {c \in ChartColumns : shown[c].displayed}

\* the summary of the table was printed, in part or whole
SummaryPrinted ==
    \/ Printed("Retrieved rows")
    \/ Printed("First 5 rows")
    \/ Printed("Statistical summary")
    \/ Printed("Total unique stations")

\* something was drawn or displayed
ChartStarted ==
    \/ Rendered # {}
    \/ \E c \in HistColumns : axes[c].drawn
    \/ Ran("subplots")

\* the position of a step in the trace (0: it did not run)
Pos(step) ==
    IF Ran(step) THEN CHOOSE j \in 1..Len(trace) : trace[j] = step ELSE 0

Times(step) == Cardinality({j \in 1..Len(trace) : trace[j] = step})

-----------------------------------------------------------------------------
(* C1 *)

\* C1 (as claimed): whenever the invocation of the credential helper has
\* failed, by a non-zero exit or by the helper not being launchable, the run
\* has printed an error message, and no client is built, no query submitted,
\* no summary printed and no chart rendered.
C1_HelperFailureHandled ==
    HelperFailed =>
        /\ Printed("Error: CalledProcessError") \/ Printed("Failed to get access token")
        /\ ~client.built
        /\ query_submits = 0
        /\ ~df.ready
        /\ ~SummaryPrinted
        /\ ~ChartStarted
        /\ ~Printed("Weather data analysis complete!")

-----------------------------------------------------------------------------
(* C2 *)

Phases == <<"get_access_token", "build_client", "submit_query", "to_dataframe",
            "print_retrieved", "summarize", "subplots", "show_grid">>

\* C2: the phases run in the order credentials, client, query, summary,
\* plot; a phase starts only when the one before it has succeeded: the
\* client is built and the query submitted only with a non-empty token, and
\* summary and charts only come after the table was materialized.
C2_PhaseOrder ==
    /\ \A p, q \in 1..Len(Phases) :
          (p < q /\ Ran(Phases[q])) =>
              /\ Ran(Phases[p])
              /\ Pos(Phases[p]) < Pos(Phases[q])
    /\ Ran("build_client") =>
          /\ ~access_token.isNone
          /\ Len(access_token.s) > 0
          /\ helper_calls = 1
    /\ Ran("submit_query") => client.built /\ Len(client.token) > 0
    /\ query_submits > 0 => Len(query_token) > 0
    /\ df.ready => query_submits > 0
    /\ SummaryPrinted => df.ready
    /\ ChartStarted => Ran("summarize") /\ Printed("Statistical summary")

C2_Witness ==
    /\ pc = "done"
    /\ Rendered # {}
    /\ query_submits = 1

-----------------------------------------------------------------------------
(* C3 *)

\* C3 (as claimed): in every run, whatever the outcomes of the external
\* calls, the helper is invoked exactly once and the query is submitted at
\* most once, exactly once when a token was obtained, with that token.
C3_ExactlyOnce ==
    Terminated =>
        /\ helper_calls = 1
        /\ query_submits <= 1
        /\ TokenObtained => query_submits = 1
        /\ query_submits = 1 => query_token = access_token.s

\* C3 (amended): the helper is invoked at most once, and exactly once in
\* every run whose start-up (package import and installation) did not fail;
\* the query is submitted at most once, exactly once in every run in which a
\* token was obtained and the client was built, and always with the one token
\* obtained at the start.
C3_NoRetry ==
    /\ helper_calls <= 1
    /\ query_submits <= 1
    /\ Times("get_access_token") = helper_calls
    /\ Times("submit_query") = query_submits
    /\ (Terminated /\ error \notin {"CalledProcessError", "ImportError"}) =>
          helper_calls = 1
    /\ query_submits = 1 => TokenObtained
    /\ (Terminated /\ client.built) => query_submits = 1
    /\ query_submits = 1 => query_token = access_token.s

C3_Witness ==
    /\ pc = "done"
    /\ helper_calls = 1
    /\ query_submits = 1
    /\ query_token = <<"a", "a">>

-----------------------------------------------------------------------------
(* C4 *)

\* C4: a chart is only ever rendered of a column that is present, and in a
\* run that reaches its end each of the five charts is rendered if and only
\* if its column is present in the table, whatever the other columns are: the
\* number of charts is the number of the five columns present, at most five.
C4_ChartsIffPresent ==
    /\ Rendered \subseteq (df.cols \cap ChartColumns)
    /\ \A c \in HistColumns : axes[c].drawn => c \in df.cols
    /\ Cardinality(Rendered) <= 5
    /\ pc \in {"station_number", "bar_chart", "print_unique", "rank_loop"} =>
          Rendered \cap HistColumns = df.cols \cap HistColumns
    /\ pc \in {"complete", "done"} =>
          /\ \A c \in ChartColumns : c \in Rendered <=> c \in df.cols
          /\ Cardinality(Rendered) = Cardinality(df.cols \cap ChartColumns)

C4_Witness ==
    /\ pc = "done"
    /\ "mean_temp" \notin df.cols
    /\ "total_precipitation" \in Rendered
    /\ "station_number" \in Rendered
    /\ "mean_visibility" \notin Rendered

-----------------------------------------------------------------------------
(* C5 *)

IsPrefix(s, t) == Len(s) <= Len(t) /\ s = SubSeq(t, 1, Len(s))

HistSteps(cols) ==
    SelectSeq(<<"mean_temp", "total_precipitation", "mean_wind_speed", "mean_visibility">>,
              LAMBDA c : c \in cols)

\* the steps from token acquisition on, as the token guard and the five
\* column checks decide them
BodySteps(obtained, cols) ==
    <<"get_access_token">> \o
    IF obtained
    THEN <<"token_obtained", "build_client", "submit_query", "to_dataframe",
           "print_retrieved", "summarize", "subplots">>
         \o HistSteps(cols) \o <<"show_grid">>
         \o (IF StationColumn \in cols
             THEN <<"station_number", "bar_chart", "print_ranking">> ELSE <<>>)
         \o <<"complete">>
    ELSE <<"token_failed">>

StartupSteps(imported) ==
    IF imported = "ImportError"
    THEN <<"import_pandas", "pip_install", "imports">>
    ELSE <<"import_pandas", "imports">>

-----------------------------------------------------------------------------
(* C6 *)

\* C6: when client construction or query execution fails after a token was
\* obtained, the run ends there: no table, no summary, no chart and no
\* completion message, and the "Failed to get access token" branch is not
\* taken either.
C6_NoRecoveryAfterGuard ==
    error \in {"ClientError", "QueryError"} =>
        /\ pc = "aborted"
        /\ Printed("Access token obtained")
        /\ out[Len(out)].msg \in {"Access token obtained", "Executing BigQuery query"}
        /\ ~df.ready
        /\ ~SummaryPrinted
        /\ ~ChartStarted
        /\ ~Printed("Weather data analysis complete!")
        /\ ~Printed("Failed to get access token")
        /\ ~Ran("token_failed")

C6_Witness ==
    /\ pc = "aborted"
    /\ error = "QueryError"
    /\ query_submits = 1
    /\ TokenObtained

-----------------------------------------------------------------------------
(* C7 *)

RECURSIVE SumCounts(_)
SumCounts(s) == IF s = <<>> THEN 0 ELSE Head(s).count + SumCounts(Tail(s))

StationLines == SelectSeq(out, LAMBDA l : l.msg = "Station")

Listed == {top_stations[j].station : j \in 1..Len(top_stations)}

\* C7: the ranking holds min(10, number of distinct station numbers)
\* stations, at most 10, each once with its number of records, in
\* non-increasing order of records; no station left out has more records
\* than a listed one; the records listed sum to at most the number of rows,
\* at most 500; the lines printed are numbered 1, 2, ... and are the entries
\* plotted; the printed number of unique stations is at least the number
\* listed.
C7_TopStations ==
    Ran("station_number") =>
        LET n == Len(top_stations)
            distinct == {df.rows[j][StationColumn] : j \in 1..Len(df.rows)} \ {NULL}
        IN  /\ n <= TopN
            /\ n = Min(TopN, Cardinality(distinct))
            /\ Listed \subseteq distinct
            /\ Cardinality(Listed) = n
            /\ \A j \in 1..n :
                  top_stations[j].count =
                      Cardinality({k \in 1..Len(df.rows) :
                                      df.rows[k][StationColumn] = top_stations[j].station})
            /\ \A j \in 1..n - 1 : top_stations[j].count >= top_stations[j + 1].count
            /\ \A j \in 1..n : \A u \in distinct \ Listed :
                  top_stations[j].count >=
                      Cardinality({k \in 1..Len(df.rows) : df.rows[k][StationColumn] = u})
            /\ SumCounts(top_stations) <= Len(df.rows)
            /\ Len(df.rows) <= QueryLimit
            /\ shown[StationColumn].displayed => shown[StationColumn].data = top_stations
            /\ Len(StationLines) <= n
            /\ \A j \in 1..Len(StationLines) :
                  /\ StationLines[j].rank = j
                  /\ StationLines[j].a = top_stations[j].station
                  /\ StationLines[j].b = top_stations[j].count
            /\ (pc \in {"complete", "done"} /\ Ran("print_ranking")) =>
                  Len(StationLines) = n
            /\ Ran("print_ranking") =>
                  /\ nunique >= n
                  /\ nunique = Cardinality(distinct)

C7_Witness ==
    /\ pc = "done"
    /\ Len(StationLines) = TopN
    /\ Cardinality(StationValues(df)) > TopN
    /\ \E j \in 1..Len(df.rows) : df.rows[j][StationColumn] = NULL
    /\ top_stations[TopN].count = 1

-----------------------------------------------------------------------------
(* C8 *)

Stripped(s) == s # <<>> /\ s[1] \notin Whitespace /\ s[Len(s)] \notin Whitespace

\* C8: a helper that exits successfully with an empty or whitespace-only
\* output is treated as a failed acquisition: the success branch is not
\* taken, "Failed to get access token" is printed, no client is built and no
\* query submitted; and the client is built and the query submitted only
\* with a token that is non-empty and has no leading or trailing whitespace.
C8_BlankTokenIsFailure ==
    /\ (helper_result = "blank" /\ pc # "guard") =>
          /\ pc = "failed"
          /\ out = <<Line("Failed to get access token", 0, 0)>>
          /\ ~Ran("token_obtained")
          /\ ~client.built
          /\ query_submits = 0
    /\ helper_result = "token" => pc \in {"guard", "aborted"} \/ Ran("token_obtained")
    /\ client.built => Stripped(client.token) /\ client.token = access_token.s
    /\ query_submits > 0 => Stripped(query_token)

C8_Witness ==
    /\ helper_result = "blank"
    /\ ~access_token.isNone
    /\ pc = "failed"
    /\ Printed("Failed to get access token")

-----------------------------------------------------------------------------
(* C9 *)

LastPrinted(msg) == out # <<>> /\ out[Len(out)].msg = msg

\* the run went through token, query, summary and charts to the completion
\* message
OutcomeComplete ==
    /\ LastPrinted("Weather data analysis complete!")
    /\ Printed("Access token obtained")
    /\ TokenObtained
    /\ query_submits = 1
    /\ df.ready
    /\ Ran("print_retrieved") /\ Ran("summarize") /\ Ran("show_grid")
    /\ \A c \in ChartColumns : c \in df.cols => Ran(c) /\ c \in Rendered
    /\ StationColumn \in df.cols => Ran("bar_chart") /\ Ran("print_ranking")

\* the failure message was the last thing the run did
OutcomeFailed ==
    /\ LastPrinted("Failed to get access token")
    /\ trace[Len(trace)] = "token_failed"
    /\ ~client.built
    /\ query_submits = 0
    /\ ~df.ready

\* an unhandled error ended the run
OutcomeAborted == error # "none"

\* C9: every run terminates, and it ends in exactly one of three outcomes:
\* the completion message after token, query, summary and charts; the
\* failure message with nothing after it; an unhandled error.  The success
\* and the failure message of the token guard are never both printed, and
\* the completion message is never printed after the failure message.
C9_Outcomes ==
    /\ <>Terminated
    /\ [](/\ Terminated =>
                \/ OutcomeComplete /\ ~OutcomeFailed /\ ~OutcomeAborted
                \/ ~OutcomeComplete /\ OutcomeFailed /\ ~OutcomeAborted
                \/ ~OutcomeComplete /\ ~OutcomeFailed /\ OutcomeAborted
          /\ ~(Printed("Access token obtained") /\ Printed("Failed to get access token"))
          /\ ~(Printed("Weather data analysis complete!")
                  /\ Printed("Failed to get access token")))

C9_Witness ==
    /\ pc = "done"
    /\ OutcomeComplete
    /\ Rendered = ChartColumns
    /\ Len(StationLines) = 2

-----------------------------------------------------------------------------
(* C10 *)

Occurrences(s, v) == Cardinality({j \in 1..Len(s) : s[j] = v})

Column(t, c) == [j \in 1..Len(t.rows) |-> t.rows[j][c]]

\* series s holds exactly the values of column c of t that are not missing
ExactlyNotNull(s, t, c) ==
    LET col == Column(t, c)
        present == {col[j] : j \in 1..Len(col)} \ {NULL}
    IN  /\ \A k \in 1..Len(s) : s[k] \in present
        /\ Len(s) = Len(col) - Occurrences(col, NULL)
        /\ \A v \in present : Occurrences(s, v) = Occurrences(col, v)

\* each histogram series holds exactly the values of its column that are
\* not missing, and the figures printed are those of the table
FiguresOfTable ==
    /\ \A c \in HistColumns :
          /\ axes[c].drawn => ExactlyNotNull(axes[c].data, df, c)
          /\ shown[c].displayed => shown[c].data = axes[c].data
    /\ \A j \in 1..Len(out) :
          /\ out[j].msg \in {"Retrieved rows", "Dataset info", "Statistical summary"}
                => out[j].a = Len(df.rows)
          /\ out[j].msg = "Columns" => out[j].a = Cardinality(df.cols)
          /\ out[j].msg = "Total unique stations"
                => out[j].a = Cardinality(StationValues(df))
          /\ out[j].msg = "Station"
                => out[j].b = Occurrences(Column(df, StationColumn), out[j].a)

\* C10: once the table is materialized no step changes it: it stays the
\* table to_dataframe() returned.  Each histogram is made of a separate
\* series that holds exactly the values of its column that are not missing,
\* and the figures printed and plotted (row counts, unique stations, station
\* records) are those of the table the row count was reported for.
C10_TableUnchanged ==
    /\ df = fetched
    /\ df.ready <=> Ran("to_dataframe") /\ pc # "to_dataframe" /\ error # "QueryError"
    /\ FiguresOfTable

C10_Witness ==
    /\ pc = "done"
    /\ axes["mean_temp"].drawn
    /\ axes["mean_temp"].data # <<>>
    /\ Len(axes["mean_temp"].data) < Len(df.rows)
    /\ shown["mean_temp"].displayed
    /\ Len(StationLines) > 0

====
